---- MODULE Spec2Model ----
(***************************************************************************)
(* Model of build_art_data.py: load_data, validate_links, merge_data,      *)
(* analyze_data and main, together with add_financial_event of app.py,     *)
(* the one writer of an input table.                                       *)
(*                                                                         *)
(* A table (pandas DataFrame) is a sequence of records, one per row.  An   *)
(* empty CSV cell is read as NaN, modelled by NULL.  Key columns of the    *)
(* referenced tables (artist_id of artist, artwork_id of artwork, image_id *)
(* of image_asset) are never NULL; they may repeat.                        *)
(***************************************************************************)
EXTENDS Integers, Sequences, FiniteSets, TLC

\* ------------------------------------------------------------- bounds
MaxArtists == 2
MaxArtworks == 2
MaxImages == 1
MaxEvents == 2
MaxRuns == 2

\* NaN, what pd.read_csv yields for an empty cell
NULL == -1

ArtistIds == {1, 2}
ArtworkIds == {10, 20}
ImageIds == {100, 200}
Prices == {500, 700}
NameOf(a) == IF a = 1 THEN "A" ELSE "B"

\* ------------------------------------------------------------- helpers
RECURSIVE ConcatAll(_)
ConcatAll(ss) == IF ss = <<>> THEN <<>> ELSE Head(ss) \o ConcatAll(Tail(ss))

RECURSIVE SumSeq(_)
SumSeq(s) == IF s = <<>> THEN 0 ELSE Head(s) + SumSeq(Tail(s))

RECURSIVE GCD(_, _)
GCD(a, b) == IF b = 0 THEN a ELSE GCD(b, a % b)

\* The sequences over S of length at most n.
SeqUpTo(S, n) == UNION {[1..k -> S] : k \in 0..n}

\* ------------------------------------------------------------- rows
ArtistRows == {[artist_id |-> a, name |-> NameOf(a)] : a \in ArtistIds}
ArtworkRows == [artwork_id : ArtworkIds, artist_id : ArtistIds,
                image_primary_id : ImageIds \cup {NULL}]
ImageRows == [image_id : ImageIds, artwork_id : ArtworkIds]
EventRows == [artwork_id : ArtworkIds, price_amount : Prices \cup {NULL}]

\* artwork_financial.csv: every row has its own id (a uuid4 in app.py).
WithIds(evs) == [i \in 1..Len(evs) |->
                   [id |-> i, artwork_id |-> evs[i].artwork_id,
                    price_amount |-> evs[i].price_amount]]

\* ------------------------------------------------------------- validate_links
\* set(df[col]) for the four referencing and three referenced columns
ArtworkArtistIds(data) == {data.artwork[i].artist_id : i \in DOMAIN data.artwork}
ArtworkPrimaryIds(data) == {data.artwork[i].image_primary_id : i \in DOMAIN data.artwork}
ArtworkIdsOf(data) == {data.artwork[i].artwork_id : i \in DOMAIN data.artwork}
ArtistIdsOf(data) == {data.artist[i].artist_id : i \in DOMAIN data.artist}
ImageIdsOf(data) == {data.image_asset[i].image_id : i \in DOMAIN data.image_asset}
ImageArtworkIds(data) == {data.image_asset[i].artwork_id : i \in DOMAIN data.image_asset}
FinArtworkIds(data) ==
    {data.artwork_financial[i].artwork_id : i \in DOMAIN data.artwork_financial}

Warn(rel, missing) == IF missing # {} THEN <<[rel |-> rel, missing |-> missing]>> ELSE <<>>

missing_artist(data) == ArtworkArtistIds(data) \ ArtistIdsOf(data)
missing_artwork_img(data) == ImageArtworkIds(data) \ ArtworkIdsOf(data)
missing_img_primary(data) == ArtworkPrimaryIds(data) \ ImageIdsOf(data)
missing_artwork_fin(data) == FinArtworkIds(data) \ ArtworkIdsOf(data)

validate_links(data) ==
       Warn("artwork.artist_id", missing_artist(data))
    \o Warn("image_asset.artwork_id", missing_artwork_img(data))
    \o Warn("artwork.image_primary_id", missing_img_primary(data))
    \o Warn("artwork_financial.artwork_id", missing_artwork_fin(data))

\* ------------------------------------------------------------- merge_data
\* pd.merge(artwork, artist, on artist_id): inner join, left row order kept,
\* one output row per matching pair.
MergeArtist(artwork, artist) ==
    ConcatAll([i \in 1..Len(artwork) |->
        LET m == SelectSeq(artist, LAMBDA r : r.artist_id = artwork[i].artist_id)
        IN  [j \in 1..Len(m) |->
               [artwork_id |-> artwork[i].artwork_id,
                artist_id |-> artwork[i].artist_id,
                image_primary_id |-> artwork[i].image_primary_id,
                name |-> m[j].name]]])

\* The image join as a left join: an artwork without a resolved image kept.
MergeImage_left(df, image_asset) ==
    ConcatAll([i \in 1..Len(df) |->
        LET m == SelectSeq(image_asset, LAMBDA r : r.image_id = df[i].image_primary_id)
            row(id, aw) == [artwork_id |-> df[i].artwork_id,
                            artist_id |-> df[i].artist_id,
                            image_primary_id |-> df[i].image_primary_id,
                            name |-> df[i].name,
                            image_id |-> id,
                            artwork_id_image |-> aw]
        IN  IF m = <<>> THEN <<row(NULL, NULL)>>
            ELSE [j \in 1..Len(m) |-> row(m[j].image_id, m[j].artwork_id)]])

\* pd.merge(df, image_asset, left_on image_primary_id, right_on image_id):
\* inner join; the image's artwork_id collides and is renamed artwork_id_image.
MergeImage(df, image_asset) ==
    ConcatAll([i \in 1..Len(df) |->
        LET m == SelectSeq(image_asset, LAMBDA r : r.image_id = df[i].image_primary_id)
        IN  [j \in 1..Len(m) |->
               [artwork_id |-> df[i].artwork_id,
                artist_id |-> df[i].artist_id,
                image_primary_id |-> df[i].image_primary_id,
                name |-> df[i].name,
                image_id |-> m[j].image_id,
                artwork_id_image |-> m[j].artwork_id]]])

EnrichedRow(l, id, price) ==
    [artwork_id |-> l.artwork_id, artist_id |-> l.artist_id,
     image_primary_id |-> l.image_primary_id, name |-> l.name,
     image_id |-> l.image_id, artwork_id_image |-> l.artwork_id_image,
     id |-> id, price_amount |-> price]

\* The financial join as a lookup of the first event of each artwork.
MergeFinancial_firstEvent(df, fin) ==
    [i \in 1..Len(df) |->
        LET m == SelectSeq(fin, LAMBDA r : r.artwork_id = df[i].artwork_id)
        IN  IF m = <<>> THEN EnrichedRow(df[i], NULL, NULL)
            ELSE EnrichedRow(df[i], m[1].id, m[1].price_amount)]

\* The financial join as an inner join.
MergeFinancial_inner(df, fin) ==
    ConcatAll([i \in 1..Len(df) |->
        LET m == SelectSeq(fin, LAMBDA r : r.artwork_id = df[i].artwork_id)
        IN  [j \in 1..Len(m) |-> EnrichedRow(df[i], m[j].id, m[j].price_amount)]])

\* pd.merge(df, artwork_financial, on artwork_id, how='left'): a left row
\* without a match is kept once, its financial columns NaN.
MergeFinancial(df, fin) ==
    ConcatAll([i \in 1..Len(df) |->
        LET m == SelectSeq(fin, LAMBDA r : r.artwork_id = df[i].artwork_id)
        IN  IF m = <<>>
            THEN <<EnrichedRow(df[i], NULL, NULL)>>
            ELSE [j \in 1..Len(m) |-> EnrichedRow(df[i], m[j].id, m[j].price_amount)]])

merge_data(data) ==
    MergeFinancial(MergeImage(MergeArtist(data.artwork, data.artist),
                              data.image_asset),
                   data.artwork_financial)

\* ------------------------------------------------------------- analyze_data
\* The artist_ids of the enriched rows in the order of their first rows.
RECURSIVE FirstAppearance(_)
FirstAppearance(s) ==
    IF s = <<>> THEN <<>>
    ELSE LET rest == FirstAppearance(SubSeq(s, 1, Len(s) - 1))
             last == s[Len(s)].artist_id
         IN  IF \E i \in DOMAIN rest : rest[i] = last THEN rest ELSE Append(rest, last)

\* groupby with sort=False: the group keys in order of first appearance.
GroupKeys_unsorted(merged_df) == FirstAppearance(merged_df)

\* groupby('artist_id') with the default sort=True: the group keys ascending.
RECURSIVE SortedKeys(_)
SortedKeys(S) ==
    IF S = {} THEN <<>>
    ELSE LET lo == CHOOSE x \in S : \A y \in S : x <= y
         IN  <<lo>> \o SortedKeys(S \ {lo})

GroupKeys(merged_df) ==
    SortedKeys({merged_df[i].artist_id : i \in DOMAIN merged_df})

\* Series.mean(): NaN skipped; the mean of no value is NaN.  A mean is kept
\* as the fraction num/den in lowest terms, NaN as 0/0.
Mean(vals) ==
    IF vals = <<>> THEN [num |-> 0, den |-> 0]
    ELSE LET s == SumSeq(vals)
             g == GCD(s, Len(vals))
         IN  [num |-> s \div g, den |-> Len(vals) \div g]

\* The mean with an absent price counted as zero.
GroupMean_absentAsZero(grp, present) ==
    IF grp = <<>> THEN [num |-> 0, den |-> 0]
    ELSE LET t == SumSeq(present)
             g == GCD(t, Len(grp))
         IN  [num |-> t \div g, den |-> Len(grp) \div g]

\* .agg(['sum', 'mean']): the mean of a group's present prices
GroupMean(grp, present) == Mean(present)

analyze_data(merged_df) ==
    LET keys == GroupKeys(merged_df)
    IN  [k \in 1..Len(keys) |->
           LET grp == SelectSeq(merged_df, LAMBDA r : r.artist_id = keys[k])
               present == SelectSeq([i \in 1..Len(grp) |-> grp[i].price_amount],
                                    LAMBDA p : p # NULL)
           IN  [artist_id |-> keys[k],
                name |-> grp[1].name,
                artwork_count |-> Len(grp),
                total_price |-> SumSeq(present),
                avg_price |-> GroupMean(grp, present)]]

\* ------------------------------------------------------------- state
VARIABLES
    csv,        \* the five input files' tables, on disk
    present,    \* the input files that exist on disk during this run
    data,       \* load_data's data: the tables read so far
    loaded,     \* how many of Files load_data's loop has read
    warnings,   \* main's warnings
    merged_df,  \* main's merged_df
    summary_df, \* main's summary_df
    out,        \* out/artworks_enriched.csv and out/summary_by_artist.csv
    written,    \* rows of the open artifact that to_csv has written
    failed,     \* the artifact whose write raised, or "none"
    pc,         \* main's position
    runs,       \* runs of main started so far
    start_out,  \* history: out when this run started
    last_run,   \* history: inputs and artifacts of the latest completed run
    prev_run    \* history: the same for the completed run before it

vars == <<csv, present, data, loaded, warnings, merged_df, summary_df, out,
          written, failed, pc, runs, start_out, last_run, prev_run>>

Files == <<"artist", "artwork", "image_asset", "user", "artwork_financial">>
FileSet == {Files[i] : i \in DOMAIN Files}

Tables(artist, artwork, image_asset, fin) ==
    [artist |-> artist, artwork |-> artwork, image_asset |-> image_asset,
     user |-> <<>>, artwork_financial |-> fin]

NoTables == Tables(<<>>, <<>>, <<>>, <<>>)
NoFile == [exists |-> FALSE, header |-> FALSE, rows |-> <<>>]
NoOut == [enriched |-> NoFile, summary |-> NoFile]
NoRun == [valid |-> FALSE, inputs |-> NoTables, out |-> NoOut]

Resting == pc \in {"idle", "done", "load_failed", "write_failed"}

\* ------------------------------------------------------------- main
\* A run of main starts; which input files exist is the environment's choice.
StartMain ==
    /\ Resting
    /\ runs < MaxRuns
    /\ \E p \in SUBSET FileSet : present' = p
    /\ runs' = runs + 1
    /\ data' = NoTables
    /\ loaded' = 0
    /\ warnings' = <<>>
    /\ merged_df' = <<>>
    /\ summary_df' = <<>>
    /\ written' = 0
    /\ failed' = "none"
    /\ start_out' = out
    /\ pc' = "load"
    /\ UNCHANGED <<csv, out, last_run, prev_run>>

\* load_data skipping a missing file instead of raising.
LoadFile_skipMissing ==
    /\ pc = "load"
    /\ loaded < Len(Files)
    /\ LET key == Files[loaded + 1]
       IN  /\ data' = IF key \in present THEN [data EXCEPT ![key] = csv[key]] ELSE data
           /\ loaded' = loaded + 1
           /\ pc' = IF loaded + 1 = Len(Files) THEN "validate" ELSE "load"
    /\ UNCHANGED <<csv, present, warnings, merged_df, summary_df, out, written,
                   failed, runs, start_out, last_run, prev_run>>

\* One iteration of load_data's loop: pd.read_csv raises on a missing file.
LoadFile ==
    /\ pc = "load"
    /\ loaded < Len(Files)
    /\ LET key == Files[loaded + 1]
       IN  IF key \in present
           THEN /\ data' = [data EXCEPT ![key] = csv[key]]
                /\ loaded' = loaded + 1
                /\ pc' = IF loaded + 1 = Len(Files) THEN "validate" ELSE "load"
           ELSE /\ pc' = "load_failed"
                /\ UNCHANGED <<data, loaded>>
    /\ UNCHANGED <<csv, present, warnings, merged_df, summary_df, out, written,
                   failed, runs, start_out, last_run, prev_run>>

ValidateLinks ==
    /\ pc = "validate"
    /\ warnings' = validate_links(data)
    /\ pc' = "merge"
    /\ UNCHANGED <<csv, present, data, loaded, merged_df, summary_df, out, written,
                   failed, runs, start_out, last_run, prev_run>>

MergeData ==
    /\ pc = "merge"
    /\ merged_df' = merge_data(data)
    /\ pc' = "analyze"
    /\ UNCHANGED <<csv, present, data, loaded, warnings, summary_df, out, written,
                   failed, runs, start_out, last_run, prev_run>>

AnalyzeData ==
    /\ pc = "analyze"
    /\ summary_df' = analyze_data(merged_df)
    /\ pc' = "makedirs"
    /\ UNCHANGED <<csv, present, data, loaded, warnings, merged_df, out, written,
                   failed, runs, start_out, last_run, prev_run>>

\* os.makedirs(out_dir, exist_ok=True): creates no file; raises when the
\* directory cannot be made.
MakeDirs ==
    /\ pc = "makedirs"
    /\ \E ok \in BOOLEAN : pc' = IF ok THEN "open_enriched" ELSE "write_failed"
    /\ UNCHANGED <<csv, present, data, loaded, warnings, merged_df, summary_df, out,
                   written, failed, runs, start_out, last_run, prev_run>>

\* open(path, 'a'): the file is created, or kept as it is.
Truncate_append(f) == [f EXCEPT !.exists = TRUE]

\* open(path, 'w'): the file is created, or cut to length zero.
Truncate(f) == [exists |-> TRUE, header |-> FALSE, rows |-> <<>>]

\* DataFrame.to_csv(path): open for writing, the header line, the rows in
\* order, close.  Each step may raise (path not writable, disk full), which
\* ends the run where the file then stands.
ToCsv(art, df, next) ==
    \/ /\ pc = "open_" \o art
       /\ \E ok \in BOOLEAN :
            IF ok
            THEN /\ out' = [out EXCEPT ![art] = Truncate(@)]
                 /\ pc' = "write_" \o art
                 /\ UNCHANGED failed
            ELSE /\ pc' = "write_failed"
                 /\ failed' = art
                 /\ UNCHANGED out
       /\ written' = 0
       /\ UNCHANGED <<last_run, prev_run>>
    \/ /\ pc = "write_" \o art
       /\ \E ok \in BOOLEAN :
            IF ~ok
            THEN /\ pc' = "write_failed"
                 /\ failed' = art
                 /\ UNCHANGED <<out, written, last_run, prev_run>>
            ELSE /\ UNCHANGED failed
                 /\ IF ~out[art].header
                    THEN /\ out' = [out EXCEPT ![art].header = TRUE]
                         /\ UNCHANGED <<pc, written, last_run, prev_run>>
                    ELSE IF written < Len(df)
                    THEN /\ out' = [out EXCEPT ![art].rows = Append(@, df[written + 1])]
                         /\ written' = written + 1
                         /\ UNCHANGED <<pc, last_run, prev_run>>
                    ELSE /\ pc' = next
                         /\ IF next = "done"
                            THEN /\ last_run' = [valid |-> TRUE, inputs |-> data, out |-> out]
                                 /\ prev_run' = last_run
                            ELSE UNCHANGED <<last_run, prev_run>>
                         /\ UNCHANGED <<out, written>>

WriteEnriched ==
    /\ ToCsv("enriched", merged_df, "open_summary")
    /\ UNCHANGED <<csv, present, data, loaded, warnings, merged_df, summary_df,
                   runs, start_out>>

WriteSummary ==
    /\ ToCsv("summary", summary_df, "done")
    /\ UNCHANGED <<csv, present, data, loaded, warnings, merged_df, summary_df,
                   runs, start_out>>

\* ------------------------------------------------------------- app.py
\* load_data of app.py reads both artifacts; the form offers the artwork ids
\* of the enriched table; add_financial_event rewrites artwork_financial.csv
\* with one more row under a fresh id.
AddFinancialEvent ==
    /\ Resting
    /\ out.enriched.exists /\ out.summary.exists
    /\ Len(csv.artwork_financial) < MaxEvents
    /\ \E r \in DOMAIN out.enriched.rows, price \in Prices :
         csv' = [csv EXCEPT !.artwork_financial =
                   Append(@, [id |-> Len(@) + 1,
                              artwork_id |-> out.enriched.rows[r].artwork_id,
                              price_amount |-> price])]
    /\ UNCHANGED <<present, data, loaded, warnings, merged_df, summary_df, out,
                   written, failed, pc, runs, start_out, last_run, prev_run>>

\* ------------------------------------------------------------- specifications
Locals0 ==
    /\ warnings = <<>>
    /\ merged_df = <<>>
    /\ summary_df = <<>>
    /\ out = NoOut
    /\ written = 0
    /\ failed = "none"
    /\ start_out = NoOut
    /\ last_run = NoRun
    /\ prev_run = NoRun

\* Before the first run: the input files as authored, no artifact yet.
Init ==
    /\ \E aw \in SeqUpTo(ArtworkRows, MaxArtworks), ev \in SeqUpTo(EventRows, MaxEvents - 1) :
          csv = Tables(<<[artist_id |-> 1, name |-> "A"], [artist_id |-> 2, name |-> "B"]>>,
                       aw,
                       <<[image_id |-> 100, artwork_id |-> 10]>>,
                       WithIds(ev))
    /\ present = FileSet
    /\ data = NoTables
    /\ loaded = 0
    /\ pc = "idle"
    /\ runs = 0
    /\ Locals0

Next ==
    \/ StartMain
    \/ LoadFile
    \/ ValidateLinks
    \/ MergeData
    \/ AnalyzeData
    \/ MakeDirs
    \/ WriteEnriched
    \/ WriteSummary
    \/ AddFinancialEvent

Spec == Init /\ [][Next]_vars

\* validate_links, merge_data and analyze_data on every input within the
\* bounds, already loaded.
InitFn ==
    /\ \E ar \in SeqUpTo(ArtistRows, MaxArtists), aw \in SeqUpTo(ArtworkRows, MaxArtworks),
          im \in SeqUpTo(ImageRows, MaxImages), ev \in SeqUpTo(EventRows, MaxEvents) :
          csv = Tables(ar, aw, im, WithIds(ev))
    /\ present = FileSet
    /\ data = csv
    /\ loaded = Len(Files)
    /\ pc = "validate"
    /\ runs = 1
    /\ Locals0

NextFn == ValidateLinks \/ MergeData \/ AnalyzeData

SpecFn == InitFn /\ [][NextFn]_vars

\* ------------------------------------------------------------- properties
Validated == pc \notin {"idle", "load", "load_failed", "validate"}
Merged == Validated /\ pc # "merge"
Analyzed == Merged /\ pc # "analyze"

\* The artwork, artist and image columns of an enriched row.
ArtworkCols(r) == <<r.artwork_id, r.artist_id, r.image_primary_id>>
NonFinancial(r) == <<r.artwork_id, r.artist_id, r.image_primary_id, r.name,
                     r.image_id, r.artwork_id_image>>

ArtistResolves(aw) == \E i \in DOMAIN data.artist : data.artist[i].artist_id = aw.artist_id
ImageResolves(aw) ==
    /\ aw.image_primary_id # NULL
    /\ \E i \in DOMAIN data.image_asset : data.image_asset[i].image_id = aw.image_primary_id
Survives(aw) == ArtistResolves(aw) /\ ImageResolves(aw)

\* The rows of the enriched table that belong to artwork aw.
RowsOf(aw) == {i \in DOMAIN merged_df : ArtworkCols(merged_df[i]) =
                   <<aw.artwork_id, aw.artist_id, aw.image_primary_id>>}
EventsOf(aw) == {i \in DOMAIN data.artwork_financial :
                   data.artwork_financial[i].artwork_id = aw.artwork_id}

Unique(s, Key(_)) == \A i, j \in DOMAIN s : Key(s[i]) = Key(s[j]) => i = j
KeysUnique ==
    /\ Unique(data.artist, LAMBDA r : r.artist_id)
    /\ Unique(data.artwork, LAMBDA r : r.artwork_id)
    /\ Unique(data.image_asset, LAMBDA r : r.image_id)

C2_FanOut ==
    (Merged /\ KeysUnique) =>
      \A a \in DOMAIN data.artwork :
        LET aw == data.artwork[a]
            ev == EventsOf(aw)
        IN  (Survives(aw) /\ ev # {}) =>
              /\ Cardinality(RowsOf(aw)) = Cardinality(ev)
              /\ {merged_df[r].id : r \in RowsOf(aw)} =
                   {data.artwork_financial[e].id : e \in ev}
              /\ \A r \in RowsOf(aw) :
                   \E e \in ev :
                      /\ merged_df[r].id = data.artwork_financial[e].id
                      /\ merged_df[r].price_amount = data.artwork_financial[e].price_amount
              /\ \A r1, r2 \in RowsOf(aw) :
                   NonFinancial(merged_df[r1]) = NonFinancial(merged_df[r2])

\* A surviving artwork with two events and two rows.
C2_Witness ==
    /\ Merged /\ KeysUnique
    /\ \E a \in DOMAIN data.artwork :
          /\ Survives(data.artwork[a])
          /\ Cardinality(EventsOf(data.artwork[a])) = 2
          /\ Cardinality(RowsOf(data.artwork[a])) = 2

RECURSIVE SumPrices(_)
SumPrices(I) ==
    IF I = {} THEN 0
    ELSE LET i == CHOOSE x \in I : TRUE
         IN  merged_df[i].price_amount + SumPrices(I \ {i})

\* C4: the summary row of every artist_id of the enriched rows counts that
\* artist's rows, sums their present prices and averages the present prices
\* only.
C4_SummaryValues ==
    Analyzed =>
      \A r \in DOMAIN merged_df :
        LET a == merged_df[r].artist_id
            rows == {i \in DOMAIN merged_df : merged_df[i].artist_id = a}
            priced == {i \in rows : merged_df[i].price_amount # NULL}
        IN  \E k \in DOMAIN summary_df :
              /\ summary_df[k].artist_id = a
              /\ summary_df[k].artwork_count = Cardinality(rows)
              /\ summary_df[k].total_price = SumPrices(priced)
              /\ priced # {} =>
                   /\ summary_df[k].avg_price.den > 0
                   /\ summary_df[k].avg_price.num * Cardinality(priced) =
                        SumPrices(priced) * summary_df[k].avg_price.den

\* The example: one artist, one artwork, events priced 500 and 700.
C4_Witness ==
    /\ Analyzed
    /\ Len(data.artwork) = 1
    /\ Len(merged_df) = 2
    /\ summary_df = <<[artist_id |-> 1, name |-> "A", artwork_count |-> 2,
                       total_price |-> 1200,
                       avg_price |-> [num |-> 600, den |-> 1]]>>

\* The values a relationship offends with: the referencing values that are
\* set and absent from the referenced column.
Offending(refs, keys) == {v \in refs : v # NULL} \ keys

\* C5: the warnings are, in the fixed order, one per relationship with a
\* violation, each naming exactly the offending values.
C5_ExactWarnings ==
    Validated =>
      warnings =
           Warn("artwork.artist_id", Offending(ArtworkArtistIds(data), ArtistIdsOf(data)))
        \o Warn("image_asset.artwork_id", Offending(ImageArtworkIds(data), ArtworkIdsOf(data)))
        \o Warn("artwork.image_primary_id", Offending(ArtworkPrimaryIds(data), ImageIdsOf(data)))
        \o Warn("artwork_financial.artwork_id", Offending(FinArtworkIds(data), ArtworkIdsOf(data)))

\* C6: when every image_primary_id that is set resolves, there is no warning
\* for artwork -> image(primary), whatever number of artworks leave it unset.
C6_UnsetPrimaryNoWarning ==
    (Validated /\ \A a \in DOMAIN data.artwork :
                    data.artwork[a].image_primary_id # NULL =>
                       data.artwork[a].image_primary_id \in ImageIdsOf(data))
      => \A w \in DOMAIN warnings : warnings[w].rel # "artwork.image_primary_id"

SummaryIds == [k \in DOMAIN summary_df |-> summary_df[k].artist_id]

\* C7 as claimed: one summary row per distinct artist_id, in the order of
\* first appearance in the enriched rows.
C7_FirstAppearanceOrder ==
    Analyzed => SummaryIds = FirstAppearance(merged_df)

\* C7 as amended: one summary row per distinct artist_id of the enriched
\* rows, in ascending order of artist_id.
C7_AscendingOrder ==
    Analyzed =>
      /\ {SummaryIds[k] : k \in DOMAIN SummaryIds} =
            {merged_df[i].artist_id : i \in DOMAIN merged_df}
      /\ \A j, k \in DOMAIN SummaryIds : j < k => SummaryIds[j] < SummaryIds[k]

\* Two artists whose first rows come in descending order of artist_id.
C7_Witness ==
    /\ Analyzed
    /\ Len(summary_df) = 2
    /\ FirstAppearance(merged_df) = <<2, 1>>

\* C8: a failed artifact write leaves that artifact as the run found it.
C8_AtomicWrite ==
    (pc = "write_failed" /\ failed # "none") => out[failed] = start_out[failed]

\* C9: a run with a missing input file ends in load_data and leaves both
\* artifacts as it found them, with nothing validated, joined or aggregated.
C9_MissingInputAborts ==
    (pc # "idle" /\ present # FileSet) =>
      /\ pc \in {"load", "load_failed"}
      /\ out = start_out
      /\ warnings = <<>> /\ merged_df = <<>> /\ summary_df = <<>>

\* A run stopped by a missing file, the artifacts of an earlier run in place.
C9_Witness ==
    /\ pc = "load_failed"
    /\ last_run.valid
    /\ out = last_run.out
    /\ out.enriched.rows # <<>>
    /\ loaded > 0

\* C10: two completed runs over the same inputs leave the same artifacts.
C10_Idempotent ==
    (last_run.valid /\ prev_run.valid /\ last_run.inputs = prev_run.inputs)
      => last_run.out = prev_run.out

\* A second completed run over unchanged inputs, the artifacts not empty.
C10_Witness ==
    /\ pc = "done"
    /\ prev_run.valid
    /\ last_run.inputs = prev_run.inputs
    /\ Len(out.enriched.rows) >= 2
    /\ out.summary.rows # <<>>

====
